---- MODULE Spec2Model ----
(***************************************************************************)
(* md2pdf: lifecycle of the external renderer process (RendererClient in   *)
(* renderer_client.py) and the two conversion drivers that use it          *)
(* (process_conversion in md2pdf.py, main/process_batch/convert_file in    *)
(* md2pdf_batch.py).                                                       *)
(*                                                                         *)
(* The Python program is single threaded; the only concurrency is between  *)
(* the program and the node processes it spawns.  A call that polls or     *)
(* blocks (start_server) is therefore cut at its blocking points, so that  *)
(* the node processes can move between two health checks.                  *)
(***************************************************************************)
EXTENDS Integers, Sequences, FiniteSets, TLC

\* ---------------------------------------------------------------- bounds
MaxProcs == 3          \* node processes one behaviour may spawn
MaxFiles == 2          \* input files of one run
MaxRetries == 2        \* largest max_retries argument tried by a direct caller
MaxPatterns == 2       \* --files arguments of one batch run
MaxSegs == 2           \* dot-separated parts of a typed file name

\* ------------------------------------------------------ program constants
DEFAULT_MAX_RETRIES == 10

None == 0
Pids == 1..MaxProcs

Modes == {"api", "scoped", "interactive", "batch", "validate"}
Formats == {"pdf", "html"}
Runs == {"interactive", "batch"}
Installs == {"ok", "no_server_js", "no_node", "no_template", "no_config"}

Names == 1..MaxFiles                 \* paths that may exist on disk
FsKinds == {"file", "dir", "absent"}
\* A --files argument: a literal path (lit), or a glob pattern together
\* with the paths it matches (glob).
Patterns ==
    [lit : Names, glob : {{}}] \cup [lit : {None}, glob : SUBSET Names]

Alive == {"booting", "starting", "healthy", "failing"}
ProcStates == {"none", "dead"} \cup Alive

\* A file name is the sequence of its dot-separated parts ("out.html" is
\* <<"out", "html">>); a directory is the sequence of its components.
NoName == <<>>
NoDir == <<>>
NoPath == [dir |-> NoDir, name |-> NoName]
Segs == {"out", "pdf", "html"}
CustomNames == UNION {[1..n -> Segs] : n \in 1..MaxSegs}

\* The configuration dictionary: per section whether it is missing, a
\* scalar or a mapping, the keys of a mapping, and the value of
\* output.format.
SectionKeys(s) ==
    CASE s = "output" -> {"format", "default_theme"}
      [] s = "pdf_options" -> {"page_size", "margins", "print_background"}
      [] s = "rendering" ->
            {"math_engine", "mermaid_theme", "wait_for_rendering"}
      [] OTHER -> {}
\* What a section of the configuration can look like.
SectionShapes(s) ==
    {[kind |-> k, keys |-> {}] : k \in {"absent", "scalar"}}
    \cup {[kind |-> "dict", keys |-> K] : K \in SUBSET SectionKeys(s)}
Configs ==
    {c \in [output : SectionShapes("output"),
            pdf_options : SectionShapes("pdf_options"),
            rendering : SectionShapes("rendering"),
            themes : SectionShapes("themes"),
            format : {"pdf", "html", "docx"}] :
        "format" \notin c.output.keys => c.format = "pdf"}
\* A configuration with every key the program reads, and one with every
\* section left empty.
FullConfig ==
    [output |-> [kind |-> "dict", keys |-> SectionKeys("output")],
     pdf_options |-> [kind |-> "dict", keys |-> SectionKeys("pdf_options")],
     rendering |-> [kind |-> "dict", keys |-> SectionKeys("rendering")],
     themes |-> [kind |-> "dict", keys |-> {}],
     format |-> "pdf"]
BareConfig ==
    [output |-> [kind |-> "dict", keys |-> {}],
     pdf_options |-> [kind |-> "dict", keys |-> {}],
     rendering |-> [kind |-> "dict", keys |-> {}],
     themes |-> [kind |-> "dict", keys |-> {}],
     format |-> "pdf"]

VARIABLES
    mode,            \* which caller drives the client in this behaviour
    install,         \* is renderer/server.js present and node on the PATH
    fs,              \* path -> "file" | "dir" | "absent"
    patterns,        \* the --files arguments of the batch CLI
    format,          \* output format of the run ("pdf" | "html")
    themeOk,         \* does the chosen theme exist
    config,          \* the configuration: the sections and keys it has
    output_dir,      \* --output-dir of the batch CLI, or NoDir
    typed,           \* the answer to the filename prompt, or NoName
    proc,            \* pid -> state of the node process
    spawned,         \* number of Popen calls that succeeded so far
    portOwner,       \* pid listening on localhost:port, or None
    server_process,  \* RendererClient.server_process of the current client
                     \* (None also while no client object exists)
    pc,              \* position of the Python program
    op,              \* the client call in progress, or the last one finished
    retry,           \* [i, max]: loop counter and max_retries of start_server
    files,           \* per input file: is it readable
    fileIdx,         \* files handled so far by the loop
    results,         \* per handled file: did it succeed
    pending,         \* exception travelling through a with block, or "none"
    exit,            \* how the run ended
    summary,         \* what the run has reported about its files
    written          \* output paths the run has written to

vars == <<mode, install, fs, patterns, format, themeOk, config, output_dir,
          typed, proc, spawned, portOwner, server_process, pc, op, retry,
          files, fileIdx, results, pending, exit, summary, written>>

cfgVars == <<mode, install, fs, patterns, format, themeOk, files, config,
             output_dir, typed>>
runVars == <<fileIdx, results, pending, exit, summary, written>>

\* The options object of a render request: its field names, and which of
\* them carry a value of the configuration rather than a default.
NoOptions == [keys |-> {}, settings |-> {}]

NoOp == [name |-> "none", result |-> "none", health |-> 0, spawn |-> None,
         signals |-> <<>>, posts |-> 0, pre |-> None, reply |-> "none",
         waited |-> "none", options |-> NoOptions]

NewOp(n, sp) == [name |-> n, result |-> "running", health |-> 0,
                 spawn |-> None, signals |-> <<>>, posts |-> 0, pre |-> sp,
                 reply |-> "none", waited |-> "none", options |-> NoOptions]

NoSummary == [printed |-> FALSE, kind |-> "none", total |-> 0,
              succeeded |-> 0, failed |-> 0, entries |-> <<>>]

\* ------------------------------------------------------- the HTTP service
\* What a GET /health on base_url meets in the current state.
HealthReplies ==
    IF portOwner = None THEN {"refused"}
    ELSE CASE proc[portOwner] = "healthy" -> {"healthy"}
           [] proc[portOwner] = "starting" -> {"not_ready"}
           [] OTHER -> {"http_error", "timeout", "connect_timeout"}

\* What a POST /render/... on base_url meets in the current state.
RenderReplies ==
    IF portOwner = None THEN {"refused"}
    ELSE IF proc[portOwner] = "healthy" THEN {"ok", "http_error", "timeout"}
    ELSE {"http_error", "timeout", "connect_timeout"}

\* The exception requests raises for a reply that is not a 2xx response
\* (raise_for_status for a non-2xx one).
RaisedBy(reply) ==
    CASE reply = "refused" -> "ConnectionError"
      [] reply = "timeout" -> "ReadTimeout"
      [] reply = "connect_timeout" -> "ConnectTimeout"
      [] OTHER -> "HTTPError"

\* The classes an exception is an instance of.
Bases(e) ==
    CASE e = "ConnectionError" ->
            {"ConnectionError", "RequestException", "Exception"}
      [] e = "ReadTimeout" ->
            {"ReadTimeout", "Timeout", "RequestException", "Exception"}
      [] e = "ConnectTimeout" ->
            {"ConnectTimeout", "ConnectionError", "Timeout",
             "RequestException", "Exception"}
      [] e = "HTTPError" -> {"HTTPError", "RequestException", "Exception"}
      [] OTHER -> {e, "Exception"}

IsA(e, base) == base \in Bases(e)

\* Variant of is_server_running that asks the service instead of the
\* process handle.
is_server_running_health ==
    server_process # None /\ HealthReplies = {"healthy"}

\* RendererClient.is_server_running
is_server_running ==
    IF server_process = None THEN FALSE
    ELSE proc[server_process] \in Alive

\* Variant of health_check with the timeout clause of the render calls.
health_check_timeout(reply) ==
    IF reply \in {"healthy", "not_ready"} THEN reply
    ELSE IF IsA(RaisedBy(reply), "Timeout") THEN "RendererTimeoutError"
    ELSE IF IsA(RaisedBy(reply), "RequestException")
         THEN "RendererServerError"
    ELSE RaisedBy(reply)

\* RendererClient.health_check: the status returned, or the exception raised.
health_check(reply) ==
    IF reply \in {"healthy", "not_ready"} THEN reply
    ELSE IF IsA(RaisedBy(reply), "RequestException")
         THEN "RendererServerError"
    ELSE RaisedBy(reply)

\* Variant of the render calls with the two except clauses in the other
\* order.
render_result_swapped(reply) ==
    IF reply = "ok" THEN "ok"
    ELSE IF IsA(RaisedBy(reply), "RequestException")
         THEN "RendererServerError"
    ELSE IF IsA(RaisedBy(reply), "Timeout") THEN "RendererTimeoutError"
    ELSE RaisedBy(reply)

\* RendererClient.render_pdf / render_html: the value returned or the
\* exception raised for one reply.
render_result(reply) ==
    IF reply = "ok" THEN "ok"
    ELSE IF IsA(RaisedBy(reply), "Timeout") THEN "RendererTimeoutError"
    ELSE IF IsA(RaisedBy(reply), "RequestException")
         THEN "RendererServerError"
    ELSE RaisedBy(reply)

\* ------------------------------------------------ md2pdf_batch.resolve_files
\* A set of paths as the sorted list sorted(set(...)) returns.
RECURSIVE SortedSeq(_)
SortedSeq(S) ==
    IF S = {} THEN <<>>
    ELSE LET m == CHOOSE x \in S : \A y \in S : x <= y
         IN <<m>> \o SortedSeq(S \ {m})

Range(q) == {q[k] : k \in 1..Len(q)}

\* Path(pattern).is_file()
PathIsFile(pat) == pat.lit # None /\ fs[pat.lit] = "file"

\* glob.glob(pattern, recursive=True): the existing paths it matches.
GlobMatches(pat) ==
    IF pat.lit # None
    THEN {n \in {pat.lit} : fs[n] # "absent"}
    ELSE {n \in pat.glob : fs[n] # "absent"}

\* Variant of the loop that keeps every path the glob returns, directories
\* included.
RECURSIVE ResolveLoop_AnyPath(_, _, _)
ResolveLoop_AnyPath(pats, i, resolved) ==
    IF i > Len(pats) THEN [raised |-> FALSE, list |-> resolved]
    ELSE IF PathIsFile(pats[i])
    THEN ResolveLoop_AnyPath(pats, i + 1, Append(resolved, pats[i].lit))
    ELSE LET matched == GlobMatches(pats[i]) IN
         IF matched = {} /\ ~PathIsFile(pats[i])
         THEN [raised |-> TRUE, list |-> <<>>]
         ELSE ResolveLoop_AnyPath(pats, i + 1,
                                  resolved \o SortedSeq(matched))

\* The loop over the patterns from position i on, with `resolved` collected
\* so far: the list at the end of the loop, or the FileNotFoundError of
\* the first pattern without a file.
RECURSIVE ResolveLoop(_, _, _)
ResolveLoop(pats, i, resolved) ==
    IF i > Len(pats) THEN [raised |-> FALSE, list |-> resolved]
    ELSE IF PathIsFile(pats[i])
    THEN ResolveLoop(pats, i + 1, Append(resolved, pats[i].lit))
    ELSE LET matched == {m \in GlobMatches(pats[i]) : fs[m] = "file"} IN
         IF matched = {} /\ ~PathIsFile(pats[i])
         THEN [raised |-> TRUE, list |-> <<>>]
         ELSE ResolveLoop(pats, i + 1, resolved \o SortedSeq(matched))

resolve_files(pats) ==
    LET r == ResolveLoop(pats, 1, <<>>) IN
    IF r.raised \/ r.list = <<>> THEN [raised |-> TRUE, list |-> <<>>]
    ELSE [raised |-> FALSE, list |-> SortedSeq(Range(r.list))]

\* The identity of the k-th input file of the run.
FileAt(k) ==
    IF mode = "batch" THEN resolve_files(patterns).list[k] ELSE k

\* ------------------------------------------------ config_loader
\* validate_config: the checks in the order of the code, each ending the
\* function with False.
validate_config(c) ==
    IF \/ c.output.kind = "absent" \/ c.pdf_options.kind = "absent"
       \/ c.rendering.kind = "absent" \/ c.themes.kind = "absent"
    THEN FALSE
    ELSE IF c.output.kind # "dict" THEN FALSE
    ELSE IF \/ "format" \notin c.output.keys
            \/ "default_theme" \notin c.output.keys
    THEN FALSE
    ELSE IF c.format \notin {"pdf", "html"} THEN FALSE
    ELSE IF c.pdf_options.kind # "dict" THEN FALSE
    ELSE IF \/ "page_size" \notin c.pdf_options.keys
            \/ "margins" \notin c.pdf_options.keys
    THEN FALSE
    ELSE IF c.rendering.kind # "dict" THEN FALSE
    ELSE IF \/ "math_engine" \notin c.rendering.keys
            \/ "mermaid_theme" \notin c.rendering.keys
    THEN FALSE
    ELSE IF c.themes.kind # "dict" THEN FALSE
    ELSE TRUE

\* ------------------------------------------------ file names and paths
\* The name and the directory of input file n.
FileName(n) == <<ToString(n), "md">>
Parent(n) == <<"docs", ToString(n)>>

\* Path.stem and str.endswith("." + ext) on a file name.
stem(name) ==
    IF Len(name) > 1 THEN SubSeq(name, 1, Len(name) - 1) ELSE name
endswith(name, ext) == Len(name) > 1 /\ name[Len(name)] = ext

\* md2pdf.prompt_filename_default
prompt_filename_default(input, fmt) == Append(stem(input), fmt)

\* md2pdf.prompt_filename; answer is NoName when the user keeps the
\* default, else the custom name typed.
prompt_filename(input, fmt, answer) ==
    IF answer = NoName THEN prompt_filename_default(input, fmt)
    ELSE IF ~endswith(answer, fmt) THEN Append(answer, fmt)
    ELSE answer

\* The filename argument cli passes to process_conversion.
filename ==
    IF Len(files) = 1
    THEN prompt_filename(FileName(FileAt(1)), format, typed)
    ELSE NoName

\* output_path of convert_file for input file n.
convert_file_output(n) ==
    [dir |-> IF output_dir # NoDir THEN output_dir ELSE Parent(n),
     name |-> Append(stem(FileName(n)), format)]

\* output_path of process_conversion for input file n.
process_conversion_output(n) ==
    [dir |-> Append(Parent(n), "converted"),
     name |-> IF filename # NoName /\ Len(files) = 1 THEN filename
              ELSE prompt_filename_default(FileName(n), format)]

\* The output path of the k-th input file of the run.
OutputPath(k) ==
    IF mode = "batch" THEN convert_file_output(FileAt(k))
    ELSE process_conversion_output(FileAt(k))

\* ------------------------------------------------ render options
\* render_options of convert_file.
convert_file_options ==
    LET have == config.pdf_options.keys IN
    [keys |-> {"format", "printBackground", "margin"},
     settings |-> {o \in {"format"} : "page_size" \in have}
                  \cup {o \in {"printBackground"} :
                           "print_background" \in have}
                  \cup {o \in {"margin"} : "margins" \in have}]

\* The options process_conversion passes to render_pdf.
process_conversion_options ==
    LET have == config.pdf_options.keys \cup config.rendering.keys IN
    [keys |-> {"pageSize", "margins", "printBackground",
               "waitForRendering"},
     settings |-> {o \in {"pageSize"} : "page_size" \in have}
                  \cup {o \in {"margins"} : "margins" \in have}
                  \cup {o \in {"printBackground"} :
                           "print_background" \in have}
                  \cup {o \in {"waitForRendering"} :
                           "wait_for_rendering" \in have}]

\* ------------------------------------------------ summaries
\* Variant of success_count that counts every result.
success_count_all(rs) == Len(rs)

\* success_count of main.
success_count(rs) == Cardinality({k \in 1..Len(rs) : rs[k].success})

\* The summary main prints with --json.
JsonSummary(rs) ==
    [printed |-> TRUE, kind |-> "json", total |-> Len(rs),
     succeeded |-> success_count(rs),
     failed |-> Len(rs) - success_count(rs),
     entries |-> [k \in 1..Len(rs) |->
                    [input |-> rs[k].input, success |-> rs[k].success,
                     output |-> rs[k].output, error |-> rs[k].error]]]

\* The summary main prints without --json: "Converted s/t files" and one
\* line per file, with the name of the output or the error; failed is
\* the number of lines marked x.
TextSummary(rs) ==
    [printed |-> TRUE, kind |-> "text", total |-> Len(rs),
     succeeded |-> success_count(rs),
     failed |-> Cardinality({k \in 1..Len(rs) : ~rs[k].success}),
     entries |-> [k \in 1..Len(rs) |->
                    [input |-> rs[k].input, success |-> rs[k].success,
                     output |-> IF rs[k].success
                                THEN [dir |-> NoDir,
                                      name |-> rs[k].output.name]
                                ELSE NoPath,
                     error |-> IF rs[k].success THEN "none"
                               ELSE rs[k].error]]]

\* The line process_conversion prints for a file and the counter it
\* increments, added to what it has reported so far.
Echo(s, e) ==
    [s EXCEPT !.succeeded = IF e.success THEN @ + 1 ELSE @,
              !.failed = IF e.success THEN @ ELSE @ + 1,
              !.entries = Append(@, [input |-> e.input,
                                     success |-> e.success,
                                     output |-> e.output,
                                     error |-> e.error])]

TypeOK ==
    /\ mode \in Modes
    /\ install \in Installs
    /\ fs \in [Names -> FsKinds]
    /\ patterns \in Seq(Patterns) /\ Len(patterns) <= MaxPatterns
    /\ format \in Formats
    /\ themeOk \in BOOLEAN
    /\ config \in Configs
    /\ output_dir \in {NoDir, <<"out">>}
    /\ typed \in {NoName} \cup CustomNames
    /\ proc \in [Pids -> ProcStates]
    /\ spawned \in 0..MaxProcs
    /\ portOwner \in {None} \cup Pids
    /\ server_process \in {None} \cup Pids
    /\ retry \in [i : Nat, max : Nat]
    /\ fileIdx \in 0..MaxFiles
    /\ Len(results) <= MaxFiles
    /\ summary.total \in 0..MaxFiles
    /\ \A w \in written : \E k \in 1..fileIdx : w = OutputPath(k)

Init ==
    /\ mode \in Modes
    /\ install \in IF mode = "validate" THEN {"ok"} ELSE Installs
    /\ format \in IF mode \in Runs THEN Formats ELSE {"pdf"}
    /\ themeOk \in IF mode \in Runs THEN BOOLEAN ELSE {TRUE}
    /\ config \in CASE mode = "validate" -> Configs
                   [] mode \in Runs -> {FullConfig, BareConfig}
                   [] OTHER -> {FullConfig}
    /\ output_dir \in IF mode = "batch" THEN {NoDir, <<"out">>} ELSE {NoDir}
    /\ proc = [p \in Pids |-> "none"]
    /\ spawned = 0
    /\ portOwner = None
    /\ server_process = None
    /\ pc = IF mode = "api" THEN "idle" ELSE "begin"
    /\ op = NoOp
    /\ retry = [i |-> 0, max |-> 0]
    /\ files \in IF mode \in Runs
                THEN UNION {[1..n -> BOOLEAN] : n \in 0..MaxFiles}
                ELSE {<<>>}
    /\ typed \in IF mode = "interactive" /\ Len(files) = 1
                THEN {NoName} \cup CustomNames ELSE {NoName}
    /\ fs = [n \in Names |-> IF n <= Len(files) THEN "file" ELSE "absent"]
    /\ patterns = <<[lit |-> None, glob |-> 1..Len(files)]>>
    /\ fileIdx = 0
    /\ results = <<>>
    /\ pending = "none"
    /\ exit = "running"
    /\ summary = NoSummary
    /\ written = {}

\* ------------------------------------------------ the node processes
\* A spawned process binds the port; a second listener on the same port
\* gets EADDRINUSE and exits.
NodeListen(p) ==
    /\ proc[p] = "booting"
    /\ IF portOwner = None
       THEN /\ proc' = [proc EXCEPT ![p] = "starting"]
            /\ portOwner' = p
       ELSE /\ proc' = [proc EXCEPT ![p] = "dead"]
            /\ UNCHANGED portOwner
    /\ UNCHANGED <<cfgVars, spawned, server_process, pc, op, retry, runVars>>

\* The listening service finishes its start-up and reports "healthy".
NodeReady(p) ==
    /\ proc[p] = "starting"
    /\ proc' = [proc EXCEPT ![p] = "healthy"]
    /\ UNCHANGED <<cfgVars, spawned, portOwner, server_process, pc, op, retry,
                   runVars>>

\* The service stays up but starts answering with errors or not at all.
NodeFail(p) ==
    /\ proc[p] \in {"starting", "healthy"}
    /\ proc' = [proc EXCEPT ![p] = "failing"]
    /\ UNCHANGED <<cfgVars, spawned, portOwner, server_process, pc, op, retry,
                   runVars>>

\* The process exits on its own (crash).
NodeCrash(p) ==
    /\ proc[p] \in Alive
    /\ proc' = [proc EXCEPT ![p] = "dead"]
    /\ portOwner' = IF portOwner = p THEN None ELSE portOwner
    /\ UNCHANGED <<cfgVars, spawned, server_process, pc, op, retry, runVars>>

\* ------------------------------------------------ RendererClient
\* Effect of stop_server on the process table, the port and the log of
\* Popen calls; grace: does the process exit within the 5 s wait.
StoppedProc(p) == [proc EXCEPT ![p] = "dead"]
StoppedPort(p) == IF portOwner = p THEN None ELSE portOwner
\* How wait(timeout=5) ends: the process has exited, or TimeoutExpired.
StopWait(p, grace) ==
    IF proc[p] \in Alive /\ ~grace THEN "expired" ELSE "exited"

\* Variant of the signals of stop_server that follows every wait with kill.
StopSignals_AlwaysKill(p, grace) == <<"terminate", "kill">>

\* The signals stop_server sends, in order.
StopSignals(p, grace) ==
    IF StopWait(p, grace) = "expired" THEN <<"terminate", "kill">>
    ELSE <<"terminate">>

\* Where the program continues when start_server returns or raises.
AfterStart(r) ==
    CASE mode = "api" -> "idle"
      [] mode = "scoped" -> IF r = "ok" THEN "body" ELSE "done"
      [] mode = "interactive" -> IF r = "ok" THEN "loop" ELSE "done"
      [] OTHER -> IF r = "ok" THEN "body" ELSE "except"

ExitAfterStart(r) ==
    CASE r = "ok" -> exit
      [] mode = "scoped" -> "raised"
      [] mode = "interactive" ->
            IF r = "RendererServerError" THEN "aborted" ELSE "raised"
      [] OTHER -> exit

\* start_server ends before anything was spawned, with result r.
StartEnds(sp, r) ==
    /\ op' = [NewOp("start_server", sp) EXCEPT !.result = r]
    /\ pc' = AfterStart(r)
    /\ exit' = ExitAfterStart(r)
    /\ server_process' = sp
    /\ UNCHANGED <<proc, spawned, retry>>

\* subprocess.Popen(['node', server_path]) and the entry of the loop.
StartSpawns(sp, mr) ==
    /\ spawned < MaxProcs
    /\ spawned' = spawned + 1
    /\ proc' = [proc EXCEPT ![spawned + 1] = "booting"]
    /\ server_process' = spawned + 1
    /\ op' = [NewOp("start_server", sp) EXCEPT !.spawn = spawned + 1]
    /\ retry' = [i |-> 0, max |-> mr]
    /\ pc' = "poll"
    /\ UNCHANGED exit

\* Variant of start_server without the `server_process is not None` test.
start_server_respawn(sp, mr) ==
    /\ IF install = "no_server_js" THEN StartEnds(sp, "RendererServerError")
       ELSE IF install = "no_node" THEN StartEnds(sp, "OSError")
       ELSE StartSpawns(sp, mr)
    /\ UNCHANGED <<cfgVars, portOwner, fileIdx, results, pending, summary, written>>

\* start_server up to and including Popen, on a client whose
\* server_process is sp when the call begins.
start_server(sp, mr) ==
    /\ IF sp # None THEN StartEnds(sp, "ok")
       ELSE IF install = "no_server_js" THEN StartEnds(sp, "RendererServerError")
       ELSE IF install = "no_node" THEN StartEnds(sp, "OSError")
       ELSE StartSpawns(sp, mr)
    /\ UNCHANGED <<cfgVars, portOwner, fileIdx, results, pending, summary, written>>

\* Variant of the readiness loop that runs one iteration more than
\* max_retries.
StartServerPoll_OneMore ==
    /\ pc = "poll"
    /\ retry.i <= retry.max
    /\ \E reply \in HealthReplies :
         LET h == health_check(reply) IN
         IF h = "healthy"
         THEN /\ op' = [op EXCEPT !.result = "ok", !.health = @ + 1,
                                  !.reply = reply]
              /\ pc' = AfterStart("ok")
              /\ exit' = ExitAfterStart("ok")
              /\ retry' = [retry EXCEPT !.i = @ + 1]
         ELSE IF \/ h = "not_ready"
                 \/ IsA(h, "ConnectionError")
                 \/ IsA(h, "RequestException")
         THEN /\ op' = [op EXCEPT !.health = @ + 1, !.reply = reply]
              /\ retry' = [retry EXCEPT !.i = @ + 1]
              /\ UNCHANGED <<pc, exit>>
         ELSE /\ op' = [op EXCEPT !.result = h, !.health = @ + 1,
                                  !.reply = reply]
              /\ pc' = AfterStart(h)
              /\ exit' = ExitAfterStart(h)
              /\ retry' = [retry EXCEPT !.i = @ + 1]
    /\ UNCHANGED <<cfgVars, proc, spawned, portOwner, server_process,
                   fileIdx, results, pending, summary, written>>

\* One iteration of the readiness loop of start_server: a health check,
\* then return, sleep, or the exception that leaves the loop.  The except
\* clause of the loop names requests.ConnectionError and
\* requests.RequestException.
StartServerPoll ==
    /\ pc = "poll"
    /\ retry.i < retry.max
    /\ \E reply \in HealthReplies :
         LET h == health_check(reply) IN
         IF h = "healthy"
         THEN /\ op' = [op EXCEPT !.result = "ok", !.health = @ + 1,
                                  !.reply = reply]
              /\ pc' = AfterStart("ok")
              /\ exit' = ExitAfterStart("ok")
              /\ retry' = [retry EXCEPT !.i = @ + 1]
         ELSE IF \/ h = "not_ready"
                 \/ IsA(h, "ConnectionError")
                 \/ IsA(h, "RequestException")
         THEN /\ op' = [op EXCEPT !.health = @ + 1, !.reply = reply]
              /\ retry' = [retry EXCEPT !.i = @ + 1]
              /\ UNCHANGED <<pc, exit>>
         ELSE /\ op' = [op EXCEPT !.result = h, !.health = @ + 1,
                                  !.reply = reply]
              /\ pc' = AfterStart(h)
              /\ exit' = ExitAfterStart(h)
              /\ retry' = [retry EXCEPT !.i = @ + 1]
    /\ UNCHANGED <<cfgVars, proc, spawned, portOwner, server_process,
                   fileIdx, results, pending, summary, written>>

\* The loop of start_server ran out: stop_server, then raise.
StartServerExhausted ==
    /\ pc = "poll"
    /\ retry.i >= retry.max
    /\ \E grace \in BOOLEAN :
         /\ proc' = StoppedProc(server_process)
         /\ portOwner' = StoppedPort(server_process)
         /\ op' = [op EXCEPT !.result = "RendererServerError",
                             !.signals = StopSignals(server_process, grace),
                             !.waited = StopWait(server_process, grace)]
    /\ server_process' = None
    /\ pc' = AfterStart("RendererServerError")
    /\ exit' = ExitAfterStart("RendererServerError")
    /\ UNCHANGED <<cfgVars, spawned, retry, fileIdx, results, pending, summary, written>>

\* Variant of stop_server that signals the process but keeps the handle.
stop_server_keep(to) ==
    /\ IF server_process = None
       THEN /\ op' = [NewOp("stop_server", server_process) EXCEPT
                        !.result = "ok"]
            /\ UNCHANGED <<proc, portOwner, server_process>>
       ELSE \E grace \in BOOLEAN :
            /\ proc' = StoppedProc(server_process)
            /\ portOwner' = StoppedPort(server_process)
            /\ op' = [NewOp("stop_server", server_process) EXCEPT
                        !.result = "ok",
                        !.signals = StopSignals(server_process, grace),
                        !.waited = StopWait(server_process, grace)]
            /\ UNCHANGED server_process
    /\ pc' = to

\* stop_server; the program continues at `to`.
stop_server(to) ==
    /\ IF server_process = None
       THEN /\ op' = [NewOp("stop_server", server_process) EXCEPT !.result = "ok"]
            /\ UNCHANGED <<proc, portOwner, server_process>>
       ELSE \E grace \in BOOLEAN :
            /\ proc' = StoppedProc(server_process)
            /\ portOwner' = StoppedPort(server_process)
            /\ op' = [NewOp("stop_server", server_process) EXCEPT
                        !.result = "ok",
                        !.signals = StopSignals(server_process, grace),
                        !.waited = StopWait(server_process, grace)]
            /\ server_process' = None
    /\ pc' = to

\* ------------------------------------------------ a direct caller
ApiStartServer ==
    /\ mode = "api" /\ pc = "idle"
    /\ \E mr \in 0..MaxRetries : start_server(server_process, mr)

ApiStopServer ==
    /\ mode = "api" /\ pc = "idle"
    /\ stop_server("idle")
    /\ UNCHANGED <<cfgVars, spawned, retry, runVars>>

\* is_server_running called by the caller: poll() on the handle, no
\* request.
ApiIsServerRunning ==
    /\ mode = "api" /\ pc = "idle"
    /\ op' = [NewOp("is_server_running", server_process) EXCEPT
                !.result = IF is_server_running THEN "True" ELSE "False"]
    /\ UNCHANGED <<cfgVars, proc, spawned, portOwner, server_process, pc,
                   retry, runVars>>

\* Variant of the render calls that spawns a new process when the owned
\* one is not running.
ApiRender_Respawn(kind) ==
    /\ mode = "api" /\ pc = "idle"
    /\ \E reply \in RenderReplies :
         op' = [NewOp(kind, server_process) EXCEPT !.result = render_result(reply),
                                   !.posts = 1, !.reply = reply]
    /\ IF ~is_server_running /\ spawned < MaxProcs
       THEN /\ spawned' = spawned + 1
            /\ proc' = [proc EXCEPT ![spawned + 1] = "booting"]
            /\ server_process' = spawned + 1
       ELSE UNCHANGED <<proc, spawned, server_process>>
    /\ UNCHANGED <<cfgVars, portOwner, pc, retry, runVars>>

ApiRender(kind) ==
    /\ mode = "api" /\ pc = "idle"
    /\ \E reply \in RenderReplies :
         op' = [NewOp(kind, server_process) EXCEPT !.result = render_result(reply),
                                   !.posts = 1, !.reply = reply]
    /\ UNCHANGED <<cfgVars, proc, spawned, portOwner, server_process, pc,
                   retry, runVars>>

ApiHealthCheck ==
    /\ mode = "api" /\ pc = "idle"
    /\ \E reply \in HealthReplies :
         op' = [NewOp("health_check", server_process) EXCEPT
                  !.result = health_check(reply), !.health = 1,
                  !.reply = reply]
    /\ UNCHANGED <<cfgVars, proc, spawned, portOwner, server_process, pc,
                   retry, runVars>>

\* ------------------------------------------------ with RendererClient()
\* __enter__ of a fresh client.
ScopedEnter ==
    /\ mode = "scoped" /\ pc = "begin"
    /\ start_server(None, DEFAULT_MAX_RETRIES)

\* A render call inside the block; an exception leaves the block.
ScopedRender(kind) ==
    /\ mode = "scoped" /\ pc = "body"
    /\ \E reply \in RenderReplies :
         LET r == render_result(reply) IN
         /\ op' = [NewOp(kind, server_process) EXCEPT !.result = r,
                                                      !.posts = 1, !.reply = reply]
         /\ pc' = IF r = "ok" THEN "body" ELSE "exit"
         /\ pending' = IF r = "ok" THEN "none" ELSE r
    /\ UNCHANGED <<cfgVars, proc, spawned, portOwner, server_process, retry,
                   fileIdx, results, exit, summary, written>>

\* The block ends: it runs off its end, returns early, or its own code
\* raises.
ScopedLeave ==
    /\ mode = "scoped" /\ pc = "body"
    /\ pending' \in {"none", "return", "Exception"}
    /\ pc' = "exit"
    /\ UNCHANGED <<cfgVars, proc, spawned, portOwner, server_process, op,
                   retry, fileIdx, results, exit, summary, written>>

\* Variant of __exit__ that stops the server only when the block ended
\* without an exception.
ScopedExit_OnSuccessOnly ==
    /\ mode = "scoped" /\ pc = "exit"
    /\ IF pending \in {"none", "return"}
       THEN stop_server("done")
       ELSE /\ pc' = "done"
            /\ UNCHANGED <<proc, portOwner, server_process, op>>
    /\ exit' = IF pending \in {"none", "return"} THEN "returned" ELSE "raised"
    /\ UNCHANGED <<cfgVars, spawned, retry, fileIdx, results, pending, summary, written>>

\* __exit__: stop_server, and the exception (if any) travels on.
ScopedExit ==
    /\ mode = "scoped" /\ pc = "exit"
    /\ stop_server("done")
    /\ exit' = IF pending \in {"none", "return"} THEN "returned" ELSE "raised"
    /\ UNCHANGED <<cfgVars, spawned, retry, fileIdx, results, pending, summary, written>>

\* ------------------------------------------------ md2pdf.process_conversion
\* The outcome recorded for the k-th input file: the output path when it
\* succeeded; posts: render requests sent for it.
Entry(k, ok, err, posts) ==
    [input |-> FileAt(k), success |-> ok, error |-> err, posts |-> posts,
     output |-> IF ok THEN OutputPath(k) ELSE NoPath]

\* cli loads the configuration and calls process_conversion: theme CSS,
\* template, and for PDF the start of the renderer.
ProcessConversionBegin ==
    /\ mode = "interactive" /\ pc = "begin"
    /\ IF install = "no_config"
       THEN /\ pc' = "done"
            /\ exit' = "raised"
            /\ UNCHANGED <<cfgVars, proc, spawned, portOwner, server_process,
                           op, retry, fileIdx, results, pending, summary, written>>
       ELSE IF ~themeOk \/ install = "no_template"
       THEN /\ pc' = "done"
            /\ exit' = "aborted"
            /\ UNCHANGED <<cfgVars, proc, spawned, portOwner, server_process,
                           op, retry, fileIdx, results, pending, summary, written>>
       ELSE IF format = "pdf"
       THEN start_server(None, DEFAULT_MAX_RETRIES)
       ELSE /\ pc' = "loop"
            /\ UNCHANGED <<cfgVars, proc, spawned, portOwner, server_process,
                           op, retry, runVars>>

\* A file is done: its entry e joins the results, and its output path
\* joins the written paths when the write was reached.
Record(e, wrote) ==
    /\ results' = Append(results, e)
    /\ written' = IF wrote THEN written \cup {OutputPath(fileIdx + 1)}
                  ELSE written

\* The same in process_conversion, which also prints the line of the file
\* and counts it.
Reported(e, wrote) ==
    /\ Record(e, wrote)
    /\ summary' = Echo(summary, e)

\* Variant of the loop body that sends the render request a second time
\* when the first attempt failed.
ProcessConversionFile_Retry ==
    /\ mode = "interactive" /\ pc = "loop"
    /\ fileIdx < Len(files)
    /\ fileIdx' = fileIdx + 1
    /\ IF ~files[fileIdx + 1]
       THEN /\ Reported(Entry(fileIdx + 1, FALSE, "FileReadError", 0), FALSE)
            /\ UNCHANGED op
       ELSE IF format = "pdf"
       THEN \E reply \in RenderReplies, again \in RenderReplies,
               writeOk \in BOOLEAN :
              LET r == IF render_result(reply) = "ok" THEN "ok"
                       ELSE render_result(again)
                  n == IF render_result(reply) = "ok" THEN 1 ELSE 2 IN
              /\ op' = [NewOp("render_pdf", server_process) EXCEPT
                          !.result = r, !.posts = n, !.reply = reply,
                          !.options = process_conversion_options]
              /\ Reported(IF r # "ok" THEN Entry(fileIdx + 1, FALSE, r, n)
                          ELSE IF ~writeOk
                               THEN Entry(fileIdx + 1, FALSE, "OSError", n)
                          ELSE Entry(fileIdx + 1, TRUE, "none", n),
                          r = "ok")
       ELSE \E writeOk \in BOOLEAN :
              /\ Reported(IF writeOk THEN Entry(fileIdx + 1, TRUE, "none", 0)
                          ELSE Entry(fileIdx + 1, FALSE, "OSError", 0),
                          TRUE)
              /\ UNCHANGED op
    /\ UNCHANGED <<cfgVars, proc, spawned, portOwner, server_process, pc,
                   retry, pending, exit>>

\* One iteration of the file loop: read, build the document, then for
\* PDF render_pdf and write_bytes, for HTML write_text.
ProcessConversionFile ==
    /\ mode = "interactive" /\ pc = "loop"
    /\ fileIdx < Len(files)
    /\ fileIdx' = fileIdx + 1
    /\ IF ~files[fileIdx + 1]
       THEN /\ Reported(Entry(fileIdx + 1, FALSE, "FileReadError", 0), FALSE)
            /\ UNCHANGED op
       ELSE IF format = "pdf"
       THEN \E reply \in RenderReplies, writeOk \in BOOLEAN :
              LET r == render_result(reply) IN
              /\ op' = [NewOp("render_pdf", server_process) EXCEPT
                          !.result = r, !.posts = 1, !.reply = reply,
                          !.options = process_conversion_options]
              /\ Reported(IF r # "ok" THEN Entry(fileIdx + 1, FALSE, r, 1)
                          ELSE IF ~writeOk
                               THEN Entry(fileIdx + 1, FALSE, "OSError", 1)
                          ELSE Entry(fileIdx + 1, TRUE, "none", 1),
                          r = "ok")
       ELSE \E writeOk \in BOOLEAN :
              /\ Reported(IF writeOk THEN Entry(fileIdx + 1, TRUE, "none", 0)
                          ELSE Entry(fileIdx + 1, FALSE, "OSError", 0),
                          TRUE)
              /\ UNCHANGED op
    /\ UNCHANGED <<cfgVars, proc, spawned, portOwner, server_process, pc,
                   retry, pending, exit>>

\* After the loop: stop the renderer if there is a client, print the
\* summary with the two counters; the number of files was printed when
\* process_conversion began.
ProcessConversionFinish ==
    /\ mode = "interactive" /\ pc = "loop"
    /\ fileIdx = Len(files)
    /\ IF format = "pdf"
       THEN stop_server("done")
       ELSE /\ pc' = "done"
            /\ UNCHANGED <<proc, portOwner, server_process, op>>
    /\ exit' = "completed"
    /\ summary' = [summary EXCEPT !.printed = TRUE, !.kind = "text",
                                  !.total = Len(files)]
    /\ UNCHANGED <<cfgVars, spawned, retry, fileIdx, results, pending,
                   written>>

\* ------------------------------------------------ md2pdf_batch (main)
\* Variant of main that resolves the files without validating the theme.
MainBegin_NoThemeCheck ==
    /\ mode = "batch" /\ pc = "begin"
    /\ IF resolve_files(patterns).raised
       THEN /\ pc' = "done"
            /\ exit' = "exit1"
       ELSE /\ pc' = "loop"
            /\ UNCHANGED exit
    /\ UNCHANGED <<cfgVars, proc, spawned, portOwner, server_process, op,
                   retry, fileIdx, results, pending, summary, written>>

\* main up to the call of process_batch: validate_theme, resolve_files;
\* ValueError and FileNotFoundError end main with 1.
MainBegin ==
    /\ mode = "batch" /\ pc = "begin"
    /\ IF ~themeOk \/ resolve_files(patterns).raised
       THEN /\ pc' = "done"
            /\ exit' = "exit1"
       ELSE /\ pc' = "loop"
            /\ UNCHANGED exit
    /\ UNCHANGED <<cfgVars, proc, spawned, portOwner, server_process, op,
                   retry, fileIdx, results, pending, summary, written>>

\* What stops convert_file before it needs the renderer: read_text,
\* load_config, then load_theme_css and the template inside
\* build_html_document; "none" if nothing does.
ConvertFileError(k) ==
    CASE ~files[k] -> "FileReadError"
      [] install = "no_config" -> "FileNotFoundError"
      [] ~themeOk -> "FileNotFoundError"
      [] install = "no_template" -> "FileNotFoundError"
      [] OTHER -> "none"

\* convert_file up to the with statement (PDF) or to its end (HTML and
\* every failure before the renderer is needed).
ConvertFile ==
    /\ mode = "batch" /\ pc = "loop"
    /\ fileIdx < Len(files)
    /\ IF ConvertFileError(fileIdx + 1) # "none"
       THEN /\ Record(Entry(fileIdx + 1, FALSE,
                            ConvertFileError(fileIdx + 1), 0), FALSE)
            /\ fileIdx' = fileIdx + 1
            /\ UNCHANGED <<cfgVars, proc, spawned, portOwner, server_process,
                           pc, op, retry, pending, exit, summary>>
       ELSE IF format = "pdf"
       THEN start_server(None, DEFAULT_MAX_RETRIES)
       ELSE /\ \E writeOk \in BOOLEAN :
                 Record(IF writeOk THEN Entry(fileIdx + 1, TRUE, "none", 0)
                        ELSE Entry(fileIdx + 1, FALSE, "OSError", 0), TRUE)
            /\ fileIdx' = fileIdx + 1
            /\ UNCHANGED <<cfgVars, proc, spawned, portOwner, server_process,
                           pc, op, retry, pending, exit, summary>>

\* The body of the with block of convert_file: one render_pdf.
ConvertFileRender ==
    /\ mode = "batch" /\ pc = "body"
    /\ \E reply \in RenderReplies :
         LET r == render_result(reply) IN
         /\ op' = [NewOp("render_pdf", server_process) EXCEPT
                     !.result = r, !.posts = 1, !.reply = reply,
                     !.options = convert_file_options]
         /\ pending' = IF r = "ok" THEN "none" ELSE r
    /\ pc' = "exit"
    /\ UNCHANGED <<cfgVars, proc, spawned, portOwner, server_process, retry,
                   fileIdx, results, exit, summary, written>>

\* Variant of the end of convert_file that writes the output file whether
\* or not render_pdf returned.
ConvertFileExit_WriteAlways ==
    /\ mode = "batch" /\ pc = "exit"
    /\ stop_server("loop")
    /\ \E writeOk \in BOOLEAN :
         Record(IF pending # "none"
                THEN Entry(fileIdx + 1, FALSE, pending, op.posts)
                ELSE IF ~writeOk
                     THEN Entry(fileIdx + 1, FALSE, "OSError", op.posts)
                ELSE Entry(fileIdx + 1, TRUE, "none", op.posts),
                TRUE)
    /\ fileIdx' = fileIdx + 1
    /\ pending' = "none"
    /\ UNCHANGED <<cfgVars, spawned, retry, exit, summary>>

\* __exit__ of the with block, then write_bytes and the result entry, or
\* the except clause of convert_file.
ConvertFileExit ==
    /\ mode = "batch" /\ pc = "exit"
    /\ stop_server("loop")
    /\ \E writeOk \in BOOLEAN :
         Record(IF pending # "none"
                THEN Entry(fileIdx + 1, FALSE, pending, op.posts)
                ELSE IF ~writeOk
                     THEN Entry(fileIdx + 1, FALSE, "OSError", op.posts)
                ELSE Entry(fileIdx + 1, TRUE, "none", op.posts),
                pending = "none")
    /\ fileIdx' = fileIdx + 1
    /\ pending' = "none"
    /\ UNCHANGED <<cfgVars, spawned, retry, exit, summary>>

\* Variant of the except clause that gives up on the remaining files.
ConvertFileExcept_Break ==
    /\ mode = "batch" /\ pc = "except"
    /\ Record(Entry(fileIdx + 1, FALSE, op.result, 0), FALSE)
    /\ fileIdx' = Len(files)
    /\ server_process' = None
    /\ pc' = "loop"
    /\ UNCHANGED <<cfgVars, proc, spawned, portOwner, op, retry, pending,
                   exit, summary>>

\* The except clause of convert_file when __enter__ raised.  The client
\* object of this file goes out of scope here, and with it the only
\* reference to whatever it still owns.
ConvertFileExcept ==
    /\ mode = "batch" /\ pc = "except"
    /\ Record(Entry(fileIdx + 1, FALSE, op.result, 0), FALSE)
    /\ fileIdx' = fileIdx + 1
    /\ server_process' = None
    /\ pc' = "loop"
    /\ UNCHANGED <<cfgVars, proc, spawned, portOwner, op, retry, pending,
                   exit, summary>>

\* Variant of the exit code of main: 0 as soon as one file succeeded.
MainFinish_AnySuccess ==
    /\ mode = "batch" /\ pc = "loop"
    /\ fileIdx = Len(files)
    /\ pc' = "done"
    /\ exit' = IF \E k \in 1..Len(results) : results[k].success
               THEN "exit0" ELSE "exit1"
    /\ \E json_output \in BOOLEAN :
         summary' = IF json_output THEN JsonSummary(results)
                    ELSE TextSummary(results)
    /\ UNCHANGED <<cfgVars, proc, spawned, portOwner, server_process, op,
                   retry, fileIdx, results, pending, written>>

\* main after process_batch: the summary, as JSON or as text, and the
\* exit code.
MainFinish ==
    /\ mode = "batch" /\ pc = "loop"
    /\ fileIdx = Len(files)
    /\ pc' = "done"
    /\ exit' = IF success_count(results) = Len(results)
               THEN "exit0" ELSE "exit1"
    /\ \E json_output \in BOOLEAN :
         summary' = IF json_output THEN JsonSummary(results)
                    ELSE TextSummary(results)
    /\ UNCHANGED <<cfgVars, proc, spawned, portOwner, server_process, op,
                   retry, fileIdx, results, pending, written>>

\* ------------------------------------------------ a caller of validate_config
ValidateConfig ==
    /\ mode = "validate" /\ pc = "begin"
    /\ pc' = "done"
    /\ exit' = IF validate_config(config) THEN "valid" ELSE "invalid"
    /\ UNCHANGED <<cfgVars, proc, spawned, portOwner, server_process, op,
                   retry, fileIdx, results, pending, summary, written>>

Node ==
    \E p \in Pids : NodeListen(p) \/ NodeReady(p) \/ NodeFail(p) \/ NodeCrash(p)

Api ==
    \/ ApiStartServer
    \/ ApiStopServer
    \/ ApiIsServerRunning
    \/ ApiRender("render_pdf")
    \/ ApiRender("render_html")
    \/ ApiHealthCheck

Scoped ==
    \/ ScopedEnter
    \/ ScopedRender("render_pdf")
    \/ ScopedRender("render_html")
    \/ ScopedLeave
    \/ ScopedExit

Interactive ==
    \/ ProcessConversionBegin
    \/ ProcessConversionFile
    \/ ProcessConversionFinish

Batch ==
    \/ MainBegin
    \/ ConvertFile
    \/ ConvertFileRender
    \/ ConvertFileExit
    \/ ConvertFileExcept
    \/ MainFinish

Next ==
    \/ Node
    \/ Api
    \/ Scoped
    \/ Interactive
    \/ Batch
    \/ ValidateConfig
    \/ StartServerPoll
    \/ StartServerExhausted

Spec == Init /\ [][Next]_vars

\* ------------------------------------------------ signalling errors
\* stop_server when one of the Popen calls raises: terminate() or kill()
\* with an OSError, wait() with something other than TimeoutExpired.  Nothing
\* in stop_server catches these, so the assignment at its end is skipped.
ApiStopServerError(at) ==
    /\ mode = "api" /\ pc = "idle"
    /\ server_process # None
    /\ proc[server_process] \in Alive
    /\ op' = [NewOp("stop_server", server_process) EXCEPT
                !.result = "OSError",
                !.signals = CASE at = "terminate" -> <<>>
                              [] at = "wait" -> <<"terminate">>
                              [] OTHER -> <<"terminate", "kill">>,
                !.waited = IF at = "kill" THEN "expired" ELSE "none"]
    /\ \E dies \in BOOLEAN :
         IF at # "terminate" /\ dies
         THEN /\ proc' = StoppedProc(server_process)
              /\ portOwner' = StoppedPort(server_process)
         ELSE UNCHANGED <<proc, portOwner>>
    /\ UNCHANGED <<cfgVars, spawned, server_process, pc, retry, runVars>>

SignalError ==
    \E at \in {"terminate", "wait", "kill"} : ApiStopServerError(at)

NextFault ==
    \/ Next
    \/ SignalError

\* The program where signalling a child may fail.
SpecFault == Init /\ [][NextFault]_vars

\* ------------------------------------------------ the batch CLI alone
\* An HTML batch over any small file system and any --files arguments.
InitResolve ==
    /\ mode = "batch"
    /\ install = "ok"
    /\ format = "html"
    /\ themeOk = TRUE
    /\ config = FullConfig
    /\ output_dir \in {NoDir, <<"out">>}
    /\ typed = NoName
    /\ fs \in [Names -> FsKinds]
    /\ patterns \in UNION {[1..n -> Patterns] : n \in 0..MaxPatterns}
    /\ files \in [1..Len(resolve_files(patterns).list) -> BOOLEAN]
    /\ proc = [p \in Pids |-> "none"]
    /\ spawned = 0
    /\ portOwner = None
    /\ server_process = None
    /\ pc = "begin"
    /\ op = NoOp
    /\ retry = [i |-> 0, max |-> 0]
    /\ fileIdx = 0
    /\ results = <<>>
    /\ pending = "none"
    /\ exit = "running"
    /\ summary = NoSummary
    /\ written = {}

NextResolve ==
    \/ MainBegin
    \/ ConvertFile
    \/ MainFinish

SpecResolve == InitResolve /\ [][NextResolve]_vars

\* ------------------------------------------------ the client alone
\* A direct caller of the client, where a call that has begun goes on to
\* its next step: the Python program is never suspended inside
\* start_server.
InitLive == mode = "api" /\ Init

NextLive ==
    \/ Node
    \/ Api
    \/ StartServerPoll
    \/ StartServerExhausted

SpecLive ==
    /\ InitLive /\ [][NextLive]_vars
    /\ WF_vars(StartServerPoll) /\ WF_vars(StartServerExhausted)

\* ================================================================ claims
AliveProcs == {p \in Pids : proc[p] \in Alive}
Renders == {"render_pdf", "render_html"}
StartFailed ==
    op.name = "start_server" /\ op.result \notin {"ok", "running"}

\* C1: when a conversion run (process_conversion, or main/process_batch)
\* has ended, on whatever path, no renderer process it spawned is alive.
C1_NoProcessSurvivesRun ==
    (mode \in {"interactive", "batch"} /\ pc = "done") => AliveProcs = {}

\* C2: in `with RendererClient() as client`, the block is entered only
\* from a start_server that returned, and every way out of the block goes
\* through stop_server and ends with server_process None and
\* is_server_running() False.
C2_ScopedBlock ==
    [][mode = "scoped" =>
        /\ (pc # "body" /\ pc' = "body") =>
              (op'.name = "start_server" /\ op'.result = "ok")
        /\ (pc \in {"body", "exit"} /\ pc' \notin {"body", "exit"}) =>
              /\ pc' = "done"
              /\ op'.name = "stop_server"
              /\ server_process' = None
              /\ ~is_server_running'
              /\ AliveProcs' \subseteq AliveProcs \ {server_process}]_vars

\* C2 witness: a block entered after a start, left by an exception of a
\* render call, with the owned process stopped on the way out.
C2_Witness ==
    /\ mode = "scoped" /\ pc = "done" /\ exit = "raised"
    /\ pending \in {"RendererServerError", "RendererTimeoutError"}
    /\ op.name = "stop_server" /\ op.pre # None /\ op.signals # <<>>

\* C3: whenever start_server has raised, the process it spawned (if any) is
\* terminated and server_process is None.
C3_FailedStartResets ==
    StartFailed =>
        /\ server_process = None
        /\ op.spawn # None => proc[op.spawn] \notin Alive

\* C4: start_server that spawned a process fails only after max_retries
\* health checks, each failed or non-healthy check using up one attempt.
C4_FailsOnlyAfterAllRetries ==
    (StartFailed /\ op.spawn # None) => op.health = retry.max

\* C5: a start_server call that returns normally returns in a state where
\* a health check reports "healthy".
C5_StartReturnsHealthy ==
    [][(op' # op /\ op'.name = "start_server" /\ op'.result = "ok") =>
          HealthReplies' = {"healthy"}]_vars

\* C6: start_server on a client that already owns a process spawns nothing,
\* issues no health check, and leaves server_process and every process
\* as they were.
C6_StartIdempotent ==
    [][(op' # op /\ op'.name = "start_server" /\ op'.pre # None) =>
          /\ op'.result = "ok"
          /\ op'.spawn = None
          /\ op'.health = 0
          /\ op'.signals = <<>>
          /\ server_process' = op'.pre
          /\ server_process' = server_process
          /\ spawned' = spawned
          /\ proc' = proc
          /\ portOwner' = portOwner]_vars

\* C6 witness: a start_server that found a process owned has returned.
C6_Witness ==
    op.name = "start_server" /\ op.pre # None /\ op.result = "ok"

\* C7: stop_server returns without raising with server_process None and
\* is_server_running() False; with nothing owned it calls neither terminate
\* nor kill and changes no process.
C7_StopServer ==
    [][(op' # op /\ op'.name = "stop_server") =>
          /\ op'.result = "ok"
          /\ server_process' = None
          /\ ~is_server_running'
          /\ server_process # None =>
                (op'.signals # <<>> /\ proc'[server_process] \notin Alive)
          /\ server_process = None =>
                (op'.signals = <<>> /\ proc' = proc
                 /\ portOwner' = portOwner)]_vars

\* C7 witness: a stop_server on a client that had started and stopped
\* before, so that nothing was owned any more.
C7_Witness ==
    /\ mode = "api" /\ spawned > 0
    /\ op.name = "stop_server" /\ op.pre = None /\ op.result = "ok"
    /\ server_process = None

\* C8: when a stop_server call with a process owned has ended, normally
\* or with an error from terminate, wait or kill, server_process is None.
C8_StopAlwaysClears ==
    op.name = "stop_server" => server_process = None

\* C9: render_pdf / render_html send an HTTP request only while the client
\* owns a process that is healthy; in any other state no request is sent.
C9_RenderOnlyWhenHealthy ==
    [][(op' # op /\ op'.name \in Renders /\ op'.posts > 0) =>
          (server_process # None /\ proc[server_process] = "healthy")]_vars

\* C10: at every point of a run at most one renderer process spawned by
\* the run is alive.
C10_AtMostOneLiveProcess ==
    mode \in {"interactive", "batch"} => Cardinality(AliveProcs) <= 1

\* C11: every handled file has exactly one result entry, in input order,
\* carrying the file's identity; an unreadable file is marked failed with
\* its error; a failed entry never ends the loop, and a run that went
\* through the loop has one entry per input file.
C11_FailureIsolation ==
    /\ [](mode \in Runs =>
            /\ Len(results) = fileIdx
            /\ \A k \in 1..Len(results) :
                 /\ results[k].input = FileAt(k)
                 /\ results[k].success <=> results[k].error = "none"
                 /\ ~files[k] => results[k].error = "FileReadError"
            /\ (pc = "done" /\ exit \in {"completed", "exit0"}) =>
                 Len(results) = Len(files)
            /\ (pc = "done" /\ results # <<>>) => Len(results) = Len(files))
    /\ [][(mode \in Runs /\ results' # results) =>
            /\ results' = Append(results, results'[Len(results')])
            /\ fileIdx' = fileIdx + 1
            /\ pc' = "loop"]_vars

\* C11 witness: a finished batch over two files whose first file failed and
\* whose second file succeeded.
C11_Witness ==
    /\ mode = "batch" /\ pc = "done" /\ Len(results) = 2
    /\ ~results[1].success /\ results[2].success

\* C12: a PDF run spawns the renderer once, however many files it has.
C12_OneSpawnPerRun ==
    (mode \in Runs /\ format = "pdf") => spawned <= 1

\* C13: after a start_server that raised in a run, no result entry is
\* recorded for a file and no further process is spawned.
C13_StartFailureFatal ==
    [][(mode \in Runs /\ StartFailed) =>
          (results' = results /\ spawned' = spawned)]_vars

\* C14: with an unknown theme the run stops before the file loop: nothing
\* is spawned, no client call is made, no file is handled, there is no
\* result entry, and the batch CLI ends with exit code 1.
C14_UnknownThemeIsPrecondition ==
    (mode \in Runs /\ ~themeOk) =>
        /\ spawned = 0
        /\ op = NoOp
        /\ fileIdx = 0
        /\ results = <<>>
        /\ pc \in {"begin", "done"}
        /\ (pc = "done" /\ mode = "batch") => exit = "exit1"
        /\ (pc = "done" /\ mode = "interactive") =>
              exit \in {"aborted", "raised"}

\* C14 witness: a batch over existing files with an unknown theme has ended.
C14_Witness ==
    /\ mode = "batch" /\ ~themeOk /\ Len(files) > 0
    /\ pc = "done" /\ exit = "exit1"

\* C15: with the configuration file missing no file is handled and no
\* per-file entry is recorded.
C15_ConfigErrorFatal ==
    (mode \in Runs /\ install = "no_config") =>
        (results = <<>> /\ fileIdx = 0)

\* C16: main returns 0 or 1, and 0 exactly when the theme exists, files
\* were found and every file succeeded.
C16_ExitCode ==
    (mode = "batch" /\ pc = "done") =>
        /\ exit \in {"exit0", "exit1"}
        /\ exit = "exit0" <=>
              /\ themeOk
              /\ ~resolve_files(patterns).raised
              /\ Len(results) = Len(files)
              /\ \A k \in 1..Len(results) : results[k].error = "none"

\* C16 witness: main has returned 1 for a batch in which one file
\* succeeded and another failed.
C16_Witness ==
    /\ mode = "batch" /\ pc = "done" /\ exit = "exit1"
    /\ \E j, k \in 1..Len(results) :
         results[j].success /\ ~results[k].success

\* The files a --files argument stands for.
MatchedFiles(pat) ==
    {n \in (IF pat.lit # None THEN {pat.lit} ELSE pat.glob) : fs[n] = "file"}

\* C17: resolve_files raises when no argument matches an existing file;
\* when it returns, the list is non-empty, sorted, without duplicates and
\* holds only existing files; after a raise main ends with 1 and no file
\* is handled.
C17_ResolveFiles ==
    LET r == resolve_files(patterns) IN
    /\ (\A i \in 1..Len(patterns) : MatchedFiles(patterns[i]) = {}) =>
          r.raised
    /\ ~r.raised =>
          /\ r.list # <<>>
          /\ \A k \in 1..Len(r.list) : fs[r.list[k]] = "file"
          /\ \A j, k \in 1..Len(r.list) : j < k => r.list[j] < r.list[k]
          /\ Range(r.list) \subseteq
                UNION {MatchedFiles(patterns[i]) : i \in 1..Len(patterns)}
    /\ r.raised =>
          /\ results = <<>> /\ fileIdx = 0 /\ pc \in {"begin", "done"}
          /\ pc = "done" => exit = "exit1"

\* C17 witness: main has ended after resolve_files raised for arguments of
\* which one names a directory.
C17_Witness ==
    /\ pc = "done" /\ exit = "exit1"
    /\ resolve_files(patterns).raised
    /\ \E i \in 1..Len(patterns) :
         patterns[i].lit # None /\ fs[patterns[i].lit] = "dir"

\* C18: a render call returns on a 2xx reply, raises RendererTimeoutError
\* exactly for a timeout, RendererServerError for every other failure, and
\* nothing else.
C18_RenderTaxonomy ==
    op.name \in Renders =>
        /\ op.result \in {"ok", "RendererTimeoutError", "RendererServerError"}
        /\ op.result = "ok" <=> op.reply = "ok"
        /\ op.result = "RendererTimeoutError" <=>
              op.reply \in {"timeout", "connect_timeout"}
        /\ op.result = "RendererServerError" <=>
              op.reply \in {"refused", "http_error"}

\* C18 witness: a render call met a connect timeout, which requests reports
\* as both a ConnectionError and a Timeout.
C18_Witness ==
    /\ op.name \in Renders /\ op.reply = "connect_timeout"
    /\ op.result = "RendererTimeoutError"

\* C19: a render call sends one POST, and no file of a run has more than
\* one render request sent for it, also when that request failed.
C19_NoRenderRetry ==
    /\ op.name \in Renders => op.posts = 1
    /\ \A k \in 1..Len(results) :
         /\ results[k].posts <= 1
         /\ results[k].error = "RendererTimeoutError" => results[k].posts = 1

\* C19 witness: a file of an interactive run failed with a render timeout.
C19_Witness ==
    /\ mode = "interactive"
    /\ \E k \in 1..Len(results) :
         results[k].error = "RendererTimeoutError" /\ results[k].posts = 1

\* C20: health_check sends one GET and returns the status of a 2xx reply;
\* refused, non-2xx and timeout all raise RendererServerError.
C20_HealthCheckTaxonomy ==
    op.name = "health_check" =>
        /\ op.health = 1 /\ op.posts = 0
        /\ op.reply \in {"healthy", "not_ready"} => op.result = op.reply
        /\ op.reply \in {"refused", "http_error", "timeout",
                         "connect_timeout"} =>
              op.result = "RendererServerError"
        /\ op.reply # "none"

\* C20 witness: a health check timed out.
C20_Witness ==
    /\ op.name = "health_check" /\ op.reply = "timeout"
    /\ op.result = "RendererServerError"


\* C21: is_server_running() is True exactly when the client owns a process
\* handle and that process has not exited; it is False when nothing is
\* owned or the owned process has died; it sends no request and its value
\* does not follow the answers of the service.
C21_IsServerRunning ==
    /\ [](is_server_running <=>
            (server_process \in Pids
             /\ proc[server_process] \notin {"none", "dead"}))
    /\ [][(op' # op /\ op'.name = "is_server_running") =>
            /\ op'.result = IF server_process \in Pids
                               /\ proc[server_process] \notin {"none", "dead"}
                            THEN "True" ELSE "False"
            /\ op'.health = 0 /\ op'.posts = 0
            /\ proc' = proc /\ server_process' = server_process
            /\ spawned' = spawned /\ portOwner' = portOwner]_vars

\* C21 witness: is_server_running returned True for an owned process that
\* is alive while a health check would not get "healthy".
C21_Witness ==
    /\ op.name = "is_server_running" /\ op.result = "True"
    /\ is_server_running /\ "healthy" \notin HealthReplies

\* C22: a run that went through the file loop ends with a summary whose
\* total is the number of input files, whose succeeded and failed counts
\* add up to the total, whose succeeded count is the number of successful
\* results, and whose failed entries name the file and its error; the JSON
\* and the text summary of the same results carry the same numbers and
\* entries.
C22_SummaryConsistent ==
    /\ (/\ mode \in Runs /\ pc = "done"
        /\ mode = "interactive" => exit = "completed"
        /\ mode = "batch" => (themeOk /\ ~resolve_files(patterns).raised)) =>
          /\ summary.printed
          /\ summary.total = Len(files)
          /\ summary.succeeded + summary.failed = summary.total
          /\ summary.succeeded =
                Cardinality({k \in 1..Len(results) : results[k].success})
          /\ Len(summary.entries) = Len(results)
          /\ \A k \in 1..Len(results) :
                /\ summary.entries[k].input = FileAt(k)
                /\ summary.entries[k].success = results[k].success
                /\ ~results[k].success =>
                      /\ summary.entries[k].error = results[k].error
                      /\ summary.entries[k].error # "none"
    /\ mode = "batch" =>
          LET j == JsonSummary(results)
              t == TextSummary(results) IN
          /\ j.total = t.total
          /\ j.succeeded = t.succeeded
          /\ j.failed = t.failed
          /\ \A k \in 1..Len(results) :
                /\ j.entries[k].input = t.entries[k].input
                /\ j.entries[k].success = t.entries[k].success
                /\ j.entries[k].error = t.entries[k].error

\* C22 witness: a batch has printed its JSON summary for one file that
\* succeeded and one that failed.
C22_Witness ==
    /\ mode = "batch" /\ pc = "done" /\ summary.kind = "json"
    /\ summary.succeeded = 1 /\ summary.failed = 1

\* C23: every output file lies in the directory of its input file, or in
\* the output directory the caller named; its name is the input's stem
\* plus the format, or the explicit filename of a single-file run.
C23_OutputPathPolicy ==
    \A k \in 1..Len(results) :
        results[k].success =>
            /\ results[k].output.dir =
                  IF output_dir # NoDir THEN output_dir
                  ELSE Parent(FileAt(k))
            /\ results[k].output.name =
                  IF filename # NoName /\ Len(files) = 1 THEN filename
                  ELSE Append(stem(FileName(FileAt(k))), format)

\* C24: the default output name of <stem>.md is <stem>.<format>; a custom
\* name ending in the format is kept, one without an extension gets the
\* format appended, and one with another extension has it replaced.
C24_FilenameDerivation ==
    (mode = "interactive" /\ Len(files) = 1) =>
        \A k \in 1..Len(results) :
            results[k].success =>
                results[k].output.name =
                    IF typed = NoName
                    THEN <<ToString(FileAt(k)), format>>
                    ELSE IF typed[Len(typed)] = format /\ Len(typed) > 1
                    THEN typed
                    ELSE IF Len(typed) = 1 THEN typed \o <<format>>
                    ELSE SubSeq(typed, 1, Len(typed) - 1) \o <<format>>

\* C25: validate_config returns True for every configuration with the four
\* sections, output.format pdf or html, output.default_theme,
\* pdf_options.page_size, rendering.math_engine and themes a mapping, and
\* False for one that lacks a section or a required output field.
C25_ValidateConfig ==
    (mode = "validate" /\ pc = "done") =>
        /\ (/\ config.output.kind = "dict"
            /\ {"format", "default_theme"} \subseteq config.output.keys
            /\ config.format \in {"pdf", "html"}
            /\ config.pdf_options.kind = "dict"
            /\ "page_size" \in config.pdf_options.keys
            /\ config.rendering.kind = "dict"
            /\ "math_engine" \in config.rendering.keys
            /\ config.themes.kind = "dict") => exit = "valid"
        /\ (\/ "absent" \in {config.output.kind, config.pdf_options.kind,
                              config.rendering.kind, config.themes.kind}
            \/ ~({"format", "default_theme"} \subseteq config.output.keys))
              => exit = "invalid"

\* C26: stop_server on an owned process sends terminate first, then waits
\* for the exit, and sends kill exactly when the wait ran out on a process
\* that was still alive; a process that exited in time is never killed.
C26_StopOrder ==
    [][(op' # op /\ (op'.name = "stop_server" \/ op.signals = <<>>)
        /\ server_process # None /\ server_process' = None) =>
          /\ op'.signals \in {<<"terminate">>, <<"terminate", "kill">>}
          /\ op'.signals[1] = "terminate"
          /\ op'.waited \in {"exited", "expired"}
          /\ (op'.signals = <<"terminate", "kill">>) <=>
                (op'.waited = "expired")
          /\ op'.waited = "expired" => proc[server_process] \in Alive
          /\ proc[server_process] \notin Alive =>
                op'.signals = <<"terminate">>]_vars

\* C26 witness: a stop_server whose wait ran out and that then killed the
\* process.
C26_Witness ==
    /\ op.name = "stop_server" /\ op.waited = "expired"
    /\ op.signals = <<"terminate", "kill">>

\* C27: a process is spawned only by a start_server call made while
\* server_process is None; the render calls, health_check and
\* is_server_running spawn nothing; once the owned process has died in an
\* interactive run, the render call of a later file fails and is recorded
\* for that file, and nothing is spawned.
C27_NoRespawn ==
    /\ [][spawned' # spawned =>
            /\ op'.name = "start_server" /\ op'.pre = None
            /\ spawned' = spawned + 1
            /\ op'.spawn = spawned']_vars
    /\ [][(op' # op /\ op'.name \in Renders \cup {"health_check",
                                                   "is_server_running"}) =>
            /\ spawned' = spawned
            /\ proc' = proc
            /\ server_process' = server_process]_vars
    /\ [][(/\ mode = "interactive" /\ format = "pdf"
           /\ results' # results
           /\ files[fileIdx + 1]
           /\ ~is_server_running) =>
            /\ ~results'[Len(results')].success
            /\ results'[Len(results')].error \in
                  {"RendererServerError", "RendererTimeoutError"}
            /\ results'[Len(results')].posts = 1
            /\ spawned' = spawned]_vars

\* C27 witness: in an interactive run the owned process has died and the
\* render request of a file was refused and recorded as that file's error.
C27_Witness ==
    /\ mode = "interactive" /\ pc = "loop" /\ spawned = 1
    /\ server_process # None /\ proc[server_process] = "dead"
    /\ op.name = "render_pdf" /\ op.reply = "refused"
    /\ results # <<>>
    /\ results[Len(results)].error = "RendererServerError"

\* C28: start_server ends after at most max_retries health checks, also
\* with max_retries 0, where it spawns, stops and fails; every request
\* ends with a reply or a timeout; a stop that signalled has finished its
\* wait.
C28_Terminates ==
    /\ [](pc = "poll" =>
            /\ op.name = "start_server"
            /\ op.health = retry.i
            /\ retry.i <= retry.max)
    /\ []((op.name = "start_server" /\ op.spawn # None) =>
            op.health <= retry.max)
    /\ []((/\ op.name = "start_server" /\ op.spawn # None
           /\ retry.max = 0 /\ pc # "poll") =>
            /\ op.result = "RendererServerError"
            /\ op.health = 0
            /\ op.signals # <<>>
            /\ server_process = None)
    /\ []((op.health > 0 \/ op.posts > 0) => op.reply # "none")
    /\ [](op.signals # <<>> => op.waited \in {"exited", "expired"})
    /\ (pc = "poll") ~> (pc # "poll")

\* C28 witness: a start_server with max_retries 0 has spawned, stopped the
\* process and failed.
C28_Witness ==
    /\ op.name = "start_server" /\ op.spawn # None /\ retry.max = 0
    /\ op.result = "RendererServerError" /\ pc = "idle"

\* C29: every render_pdf request of a run carries options with the page
\* size (pageSize or format), margins, printBackground and
\* waitForRendering.
C29_RenderOptions ==
    (mode \in Runs /\ op.name = "render_pdf") =>
        /\ op.options.keys \cap {"pageSize", "format"} # {}
        /\ {"margins", "printBackground", "waitForRendering"}
              \subseteq op.options.keys

\* C30: a file whose start_server or render_pdf failed has no output
\* written, and its entry has success false, no output and an error; a
\* successful entry has its output path, written, and no error; in a PDF
\* run a file is written only after render_pdf returned.
C30_FailedConversionWritesNothing ==
    /\ [](mode \in Runs =>
            \A k \in 1..Len(results) :
              /\ results[k].success =>
                    /\ results[k].output = OutputPath(k)
                    /\ results[k].output # NoPath
                    /\ results[k].error = "none"
                    /\ OutputPath(k) \in written
              /\ ~results[k].success =>
                    /\ results[k].output = NoPath
                    /\ results[k].error # "none"
              /\ (\/ results[k].error \in {"RendererServerError",
                                            "RendererTimeoutError"}
                  \/ (format = "pdf" /\ results[k].posts = 0)) =>
                    OutputPath(k) \notin written)
    /\ [][(mode \in Runs /\ format = "pdf" /\ written' # written) =>
            \/ op'.name = "render_pdf" /\ op'.result = "ok"
            \/ /\ op.name = "render_pdf" /\ op.result = "ok"
               /\ op'.name = "stop_server"]_vars

\* C30 witness: a PDF batch recorded a file whose render request timed
\* out, and nothing was written for it.
C30_Witness ==
    /\ mode = "batch" /\ format = "pdf"
    /\ \E k \in 1..Len(results) :
         /\ results[k].error = "RendererTimeoutError"
         /\ results[k].output = NoPath
         /\ OutputPath(k) \notin written

====
